---- MODULE Spec2Model ----
(***************************************************************************)
(* nmstate: the Python binding of the network-state engine                 *)
(* (rust/src/python/libnmstate/clib_wrapper.py).                           *)
(*                                                                         *)
(* Every binding function builds its arguments, calls one entry point of   *)
(* libnmstate.so.2, reads the output slots the engine filled, bridges the  *)
(* log batch, frees engine-owned buffers and returns or raises.  The       *)
(* binding functions are modelled as operators from the engine's output    *)
(* tuple to the sequence of observable events (log records emitted,        *)
(* buffers freed) and the outcome (value returned or exception raised).    *)
(* The engine itself (the Rust library) is not part of the sources; its    *)
(* transaction table and watchdog are modelled from the specification.     *)
(***************************************************************************)
EXTENDS Integers, Sequences, FiniteSets, TLC

VARIABLES txn, timer, via, last, ctx, inflight

vars == <<txn, timer, via, last, ctx, inflight>>

(***************************************************************************)
(* Bounds of the model.                                                    *)
(***************************************************************************)
\* number of transactions the engine's table can hold in one run
MaxTxn == 2
\* largest rollback_timeout (in watchdog ticks) a caller passes
MaxTimeout == 1
\* longest log batch the engine emits in one call
MaxLogLen == 2
\* most interfaces a desired state names
MaxIfaces == 2
\* most connection files a configuration generation yields
MaxConns == 2

(***************************************************************************)
(* Python values crossing the boundary.  c_char_p().value is None for a    *)
(* NULL slot and a bytes object otherwise; bytes.decode("utf-8") gives a   *)
(* str, or raises when the bytes are not UTF-8.  Bytes and text are held   *)
(* as strings where a string can hold them and byte by byte otherwise.     *)
(***************************************************************************)
PyNone == [t |-> "none", v |-> ""]
\* a bytes object whose bytes are the ASCII codes of the characters of s
Bytes(s) == [t |-> "bytes", v |-> s]
\* a bytes object given byte by byte (each 0..255): the form of every bytes
\* object that holds a byte no character of a string of this module stands for
RawBytes(seq) == [t |-> "raw", v |-> seq]
\* a str of ASCII characters, and a str held by its UTF-8 encoding: the form
\* of every str that holds a character a string of this module cannot hold
Str(s) == [t |-> "str", v |-> s]
StrUtf8(seq) == [t |-> "strutf8", v |-> seq]

\* outcome of a function: a value returned, or an exception raised
Return(val) == [k |-> "return", cls |-> "", v |-> val]
Raise(cls, val) == [k |-> "raise", cls |-> cls, v |-> val]
NoExc == [k |-> "none", cls |-> "", v |-> PyNone]

\* the ASCII characters a string of this module can hold, in code order:
\* 32..95 and 97..126 (the grave accent, 96, cannot be written), and the
\* escapes \t \n \f \r
Ascii32To95 == " !\"#$%&'()*+,-./0123456789:;<=>?@ABCDEFGHIJKLMNOPQRSTUVWXYZ[\\]^_"
Ascii97To126 == "abcdefghijklmnopqrstuvwxyz{|}~"
TextCodes == {9, 10, 12, 13} \cup (32..95) \cup (97..126)

\* chr() and ord() on those characters
chr(n) ==
  IF n = 9 THEN "\t"
  ELSE IF n = 10 THEN "\n"
  ELSE IF n = 12 THEN "\f"
  ELSE IF n = 13 THEN "\r"
  ELSE IF n <= 95 THEN SubSeq(Ascii32To95, n - 31, n - 31)
  ELSE SubSeq(Ascii97To126, n - 96, n - 96)

ord(ch) == CHOOSE n \in TextCodes : chr(n) = ch

\* the bytes of an ASCII text, and the text of such bytes
encode(s) == [i \in 1..Len(s) |-> ord(SubSeq(s, i, i))]

\* the characters of seq[lo..hi], joined (by halves, to keep the nesting low)
RECURSIVE TextOf(_, _, _)
TextOf(seq, lo, hi) ==
  IF lo > hi THEN ""
  ELSE IF lo = hi THEN chr(seq[lo])
  ELSE LET mid == (lo + hi) \div 2
       IN TextOf(seq, lo, mid) \o TextOf(seq, mid + 1, hi)

\* the str whose UTF-8 encoding is seq
MkStr(seq) ==
  IF \A i \in DOMAIN seq : seq[i] \in TextCodes THEN Str(TextOf(seq, 1, Len(seq))) ELSE StrUtf8(seq)

\* the bytes of a bytes object, and the UTF-8 encoding of a str
BytesOf(b) == IF b.t = "raw" THEN b.v ELSE encode(b.v)
Utf8Of(s) == IF s.t = "strutf8" THEN s.v ELSE encode(s.v)

\* a + b on two str values
Cat(a, b) ==
  IF a.t = "str" /\ b.t = "str" THEN Str(a.v \o b.v) ELSE MkStr(Utf8Of(a) \o Utf8Of(b))

\* a continuation byte of UTF-8
Cont(c) == c >= 128 /\ c <= 191

\* the continuation bytes the lead byte c asks for; -1 for a byte that
\* leads no character (C0 and C1 lead overlong forms only, F5.. lead
\* nothing up to U+10FFFF)
Need(c) ==
  IF c <= 127 THEN 0
  ELSE IF c >= 194 /\ c <= 223 THEN 1
  ELSE IF c >= 224 /\ c <= 239 THEN 2
  ELSE IF c >= 240 /\ c <= 244 THEN 3
  ELSE -1

\* one whole character starts at position i: the lead, its continuation
\* bytes (no overlong form, no surrogate, nothing above U+10FFFF), and then
\* the end or the next lead
CharAt(seq, i) ==
  LET c == seq[i]
      n == Need(c)
  IN /\ n >= 0
     /\ i + n <= Len(seq)
     /\ \A j \in (i + 1)..(i + n) : Cont(seq[j])
     /\ (c = 224 => seq[i + 1] >= 160)
     /\ (c = 237 => seq[i + 1] <= 159)
     /\ (c = 240 => seq[i + 1] >= 144)
     /\ (c = 244 => seq[i + 1] <= 143)
     /\ (i + n < Len(seq) => ~Cont(seq[i + n + 1]))

\* the bytes are well-formed UTF-8, as the utf-8 codec accepts it: they start
\* with a lead, and a whole character starts at every lead
ValidUtf8(seq) ==
  /\ (seq # <<>> => ~Cont(seq[1]))
  /\ \A i \in DOMAIN seq : ~Cont(seq[i]) => CharAt(seq, i)

\* a bytes object that is not the UTF-8 encoding of any str
Undecodable(b) == b.t = "raw" /\ ~ValidUtf8(b.v)

\* a bytes object that is the UTF-8 encoding of a str
Decodable(b) == b.t = "bytes" \/ (b.t = "raw" /\ ValidUtf8(b.v))

\* bytes.decode("utf-8"): the str, or the exception it raises
decode(b) ==
  IF b.t = "bytes" THEN Return(Str(b.v))
  ELSE IF b.t = "none" THEN Raise("AttributeError", PyNone)
  ELSE IF ValidUtf8(b.v) THEN Return(MkStr(b.v))
  ELSE Raise("UnicodeDecodeError", PyNone)

\* the ASCII code of a hexadecimal digit, lower case
HexDigit(d) == IF d < 10 THEN 48 + d ELSE 87 + d

\* repr() of one byte inside a bytes repr delimited by quote (39 or 34): the
\* delimiter and the backslash behind a backslash, \t \n \r by name, the
\* other bytes below 32 or above 126 as \xNN, the rest as they are
ReprByte(c, quote) ==
  IF c = quote \/ c = 92 THEN <<92, c>>
  ELSE IF c = 9 THEN <<92, 116>>
  ELSE IF c = 10 THEN <<92, 110>>
  ELSE IF c = 13 THEN <<92, 114>>
  ELSE IF c < 32 \/ c >= 127 THEN <<92, 120, HexDigit(c \div 16), HexDigit(c % 16)>>
  ELSE <<c>>

\* the reprs of the bytes seq[lo..hi], joined (by halves, as TextOf)
RECURSIVE ReprBody(_, _, _, _)
ReprBody(seq, lo, hi, quote) ==
  IF lo > hi THEN <<>>
  ELSE IF lo = hi THEN ReprByte(seq[lo], quote)
  ELSE LET mid == (lo + hi) \div 2
       IN ReprBody(seq, lo, mid, quote) \o ReprBody(seq, mid + 1, hi, quote)

\* repr() of a bytes object, as the ASCII codes of its text: delimited by
\* single quotes, or by double quotes when the bytes hold a single quote
\* and no double quote
ReprBytes(seq) ==
  LET held == {seq[i] : i \in DOMAIN seq}
      quote == IF 39 \in held /\ 34 \notin held THEN 34 ELSE 39
  IN <<98, quote>> \o ReprBody(seq, 1, Len(seq), quote) \o <<quote>>

\* f"{x}" of a bytes object or of None
Fmt(b) ==
  IF b.t = "none" THEN Str("None") ELSE MkStr(ReprBytes(BytesOf(b)))

(***************************************************************************)
(* JSON documents as json.loads returns them.  A log payload is None or    *)
(* bytes; bytes are described by what json.loads(bytes.decode()) gives:    *)
(* "invalid" (decode or parse raises), or a JSON value.                    *)
(***************************************************************************)
JInvalid == [j |-> "invalid"]
JNum == [j |-> "num"]
JNull == [j |-> "null"]
JStr(s) == [j |-> "str", s |-> s]
JObj(d) == [j |-> "obj", d |-> d]
JList(items) == [j |-> "list", items |-> items]
LogBytes(json) == [t |-> "bytes", json |-> json]

\* observable events of one call
LogEvent(level, msg) == [e |-> "log", a |-> level, b |-> msg]
Free(buf) == [e |-> "free", a |-> buf, b |-> ""]

(***************************************************************************)
(* Flag bits and status code.                                              *)
(***************************************************************************)
NMSTATE_FLAG_NONE == 0
NMSTATE_FLAG_KERNEL_ONLY == 2
NMSTATE_FLAG_NO_VERIFY == 4
NMSTATE_FLAG_INCLUDE_STATUS_DATA == 8
NMSTATE_FLAG_INCLUDE_SECRETS == 16
NMSTATE_FLAG_NO_COMMIT == 32
NMSTATE_FLAG_MEMORY_ONLY == 64
NMSTATE_FLAG_RUNNING_CONFIG_ONLY == 128
NMSTATE_PASS == 0

(***************************************************************************)
(* map_error: the exception value for an engine-reported (kind, message),  *)
(* or the exception map_error itself raises while decoding its arguments.  *)
(***************************************************************************)
\* the generic message without the kind
generic_message_without_kind(kind, msg) == msg

\* f"{err_kind}: {err_msg}" of the generic variant
generic_message(kind, msg) == Cat(Cat(kind, Str(": ")), msg)

map_error(err_kind, err_msg) ==
  LET m == decode(err_msg)
      kd == decode(err_kind)
  IN IF m.k = "raise" THEN m
     ELSE IF kd.k = "raise" THEN kd
     ELSE LET msg == m.v
              kind == kd.v
          IN IF kind = Str("VerificationError") THEN [k |-> "return", cls |-> "NmstateVerificationError", v |-> msg]
             ELSE IF kind = Str("InvalidArgument") THEN [k |-> "return", cls |-> "NmstateValueError", v |-> msg]
             ELSE IF kind = Str("Bug") THEN [k |-> "return", cls |-> "NmstateInternalError", v |-> msg]
             ELSE IF kind = Str("PluginFailure") THEN [k |-> "return", cls |-> "NmstatePluginError", v |-> msg]
             ELSE IF kind = Str("NotImplementedError") THEN [k |-> "return", cls |-> "NmstateNotImplementedError", v |-> msg]
             ELSE IF kind = Str("KernelIntegerRoundedError") THEN [k |-> "return", cls |-> "NmstateKernelIntegerRoundedError", v |-> msg]
             ELSE IF kind = Str("NotSupportedError") THEN [k |-> "return", cls |-> "NmstateNotSupportedError", v |-> msg]
             ELSE IF kind = Str("DependencyError") THEN [k |-> "return", cls |-> "NmstateDependencyError", v |-> msg]
             ELSE IF kind = Str("PermissionError") THEN [k |-> "return", cls |-> "NmstatePermissionError", v |-> msg]
             ELSE [k |-> "return", cls |-> "NmstateError", v |-> generic_message(kind, msg)]

\* "raise map_error(err_kind, err_msg)": the exception that leaves the caller
raise_map_error(err_kind, err_msg) ==
  LET e == map_error(err_kind, err_msg)
  IN IF e.k = "raise" THEN e ELSE Raise(e.cls, e.v)

(***************************************************************************)
(* parse_log: the records emitted to the logging facility, in order, and   *)
(* the exception (if any) that escapes.                                    *)
(***************************************************************************)
\* a bridge that sends every record to logging.debug
log_level_all_debug(level) == "debug"

\* the logging call chosen for a record's level
log_level(level) ==
  IF level = "ERROR" THEN "error"
  ELSE IF level = "WARN" THEN "warning"
  ELSE IF level = "INFO" THEN "info"
  ELSE "debug"

\* the body of the for loop for one entry: the event, or the exception
log_entry_step(log_entry) ==
  IF log_entry.j # "obj" THEN [ev |-> <<>>, exc |-> Raise("TypeError", PyNone)]
  ELSE IF "time" \notin DOMAIN log_entry.d THEN [ev |-> <<>>, exc |-> Raise("KeyError", Str("time"))]
  ELSE IF "file" \notin DOMAIN log_entry.d THEN [ev |-> <<>>, exc |-> Raise("KeyError", Str("file"))]
  ELSE IF "msg" \notin DOMAIN log_entry.d THEN [ev |-> <<>>, exc |-> Raise("KeyError", Str("msg"))]
  ELSE IF "level" \notin DOMAIN log_entry.d THEN [ev |-> <<>>, exc |-> Raise("KeyError", Str("level"))]
  ELSE [ev |-> <<LogEvent(log_level(log_entry.d.level),
                          log_entry.d.time \o ":" \o log_entry.d.file \o ": " \o log_entry.d.msg)>>,
        exc |-> NoExc]

RECURSIVE log_loop(_, _)
log_loop(items, i) ==
  IF i > Len(items) THEN [events |-> <<>>, exc |-> NoExc]
  ELSE LET s == log_entry_step(items[i])
       IN IF s.exc.k = "raise" THEN [events |-> <<>>, exc |-> s.exc]
          ELSE LET rest == log_loop(items, i + 1)
               IN [events |-> s.ev \o rest.events, exc |-> rest.exc]

\* what "for log_entry in log_entries" iterates over, or the TypeError
log_iter(log_entries) ==
  IF log_entries.j = "list" THEN Return(log_entries.items)
  ELSE IF log_entries.j = "obj"
    THEN Return([i \in 1..Cardinality(DOMAIN log_entries.d) |-> JStr("key")])
  ELSE IF log_entries.j = "str"
    THEN Return([i \in 1..Len(log_entries.s) |-> JStr("char")])
  ELSE Raise("TypeError", PyNone)

parse_log(logs) ==
  IF logs.t = "none" THEN [events |-> <<>>, exc |-> NoExc]
  ELSE LET log_entries == IF logs.json.j = "invalid" THEN JList(<<>>) ELSE logs.json
           it == log_iter(log_entries)
       IN IF it.k = "raise" THEN [events |-> <<>>, exc |-> it]
          ELSE log_loop(it.v, 1)

(***************************************************************************)
(* The binding functions.  out is the engine's output for the call:         *)
(* [rc, result, log, err_kind, err_msg], each slot None or bytes.  The      *)
(* value is [events, outcome]: log records emitted and buffers freed, in    *)
(* program order, and what the caller gets.                                 *)
(***************************************************************************)
\* "return x.decode('utf-8')"
return_decoded(b) ==
  LET d == decode(b) IN IF d.k = "raise" THEN d ELSE Return(d.v)

retrieve_net_state_json(out) ==
  LET pl == parse_log(out.log)
      freed == <<Free("c_log"), Free("c_state"), Free("c_err_kind"), Free("c_err_msg")>>
  IN IF pl.exc.k = "raise" THEN [events |-> pl.events, outcome |-> pl.exc]
     ELSE IF out.rc # NMSTATE_PASS
       THEN [events |-> pl.events \o freed,
             outcome |-> Raise("NmstateError",
                               Cat(Cat(Fmt(out.err_kind), Str(": ")), Fmt(out.err_msg)))]
     ELSE [events |-> pl.events \o freed, outcome |-> return_decoded(out.result)]

\* apply_net_state without the status test of its last two lines
apply_net_state_unchecked(out) ==
  LET pl == parse_log(out.log)
      freed == <<Free("c_log"), Free("c_err_kind"), Free("c_err_msg")>>
  IN IF pl.exc.k = "raise" THEN [events |-> pl.events, outcome |-> pl.exc]
     ELSE [events |-> pl.events \o freed, outcome |-> Return(PyNone)]

apply_net_state(out) ==
  LET pl == parse_log(out.log)
      freed == <<Free("c_log"), Free("c_err_kind"), Free("c_err_msg")>>
  IN IF pl.exc.k = "raise" THEN [events |-> pl.events, outcome |-> pl.exc]
     ELSE IF out.rc # NMSTATE_PASS
       THEN [events |-> pl.events \o freed,
             outcome |-> raise_map_error(out.err_kind, out.err_msg)]
     ELSE [events |-> pl.events \o freed, outcome |-> Return(PyNone)]

\* commit_checkpoint without the status test of its last two lines
commit_checkpoint_unchecked(out) ==
  LET pl == parse_log(out.log)
      freed == <<Free("c_log"), Free("c_err_kind"), Free("c_err_msg")>>
  IN IF pl.exc.k = "raise" THEN [events |-> pl.events, outcome |-> pl.exc]
     ELSE [events |-> pl.events \o freed, outcome |-> Return(PyNone)]

commit_checkpoint(out) ==
  LET pl == parse_log(out.log)
      freed == <<Free("c_log"), Free("c_err_kind"), Free("c_err_msg")>>
  IN IF pl.exc.k = "raise" THEN [events |-> pl.events, outcome |-> pl.exc]
     ELSE IF out.rc # NMSTATE_PASS
       THEN [events |-> pl.events \o freed,
             outcome |-> raise_map_error(out.err_kind, out.err_msg)]
     ELSE [events |-> pl.events \o freed, outcome |-> Return(PyNone)]

\* rollback_checkpoint without the status test of its last two lines
rollback_checkpoint_unchecked(out) ==
  LET pl == parse_log(out.log)
      freed == <<Free("c_log"), Free("c_err_kind"), Free("c_err_msg")>>
  IN IF pl.exc.k = "raise" THEN [events |-> pl.events, outcome |-> pl.exc]
     ELSE [events |-> pl.events \o freed, outcome |-> Return(PyNone)]

rollback_checkpoint(out) ==
  LET pl == parse_log(out.log)
      freed == <<Free("c_log"), Free("c_err_kind"), Free("c_err_msg")>>
  IN IF pl.exc.k = "raise" THEN [events |-> pl.events, outcome |-> pl.exc]
     ELSE IF out.rc # NMSTATE_PASS
       THEN [events |-> pl.events \o freed,
             outcome |-> raise_map_error(out.err_kind, out.err_msg)]
     ELSE [events |-> pl.events \o freed, outcome |-> Return(PyNone)]

\* gen_conf without the call of parse_log
gen_conf_without_bridge(out) ==
  LET freed == <<Free("c_log"), Free("c_err_kind"), Free("c_err_msg")>>
  IN IF out.rc # NMSTATE_PASS
       THEN [events |-> freed, outcome |-> raise_map_error(out.err_kind, out.err_msg)]
     ELSE [events |-> freed, outcome |-> return_decoded(out.result)]

gen_conf(out) ==
  LET pl == parse_log(out.log)
      freed == <<Free("c_log"), Free("c_err_kind"), Free("c_err_msg")>>
  IN IF pl.exc.k = "raise" THEN [events |-> pl.events, outcome |-> pl.exc]
     ELSE IF out.rc # NMSTATE_PASS
       THEN [events |-> pl.events \o freed,
             outcome |-> raise_map_error(out.err_kind, out.err_msg)]
     ELSE [events |-> pl.events \o freed, outcome |-> return_decoded(out.result)]

gen_diff(out) ==
  LET freed == <<Free("c_err_kind"), Free("c_err_msg")>>
  IN IF out.rc # NMSTATE_PASS
       THEN [events |-> freed, outcome |-> raise_map_error(out.err_kind, out.err_msg)]
     ELSE [events |-> freed, outcome |-> return_decoded(out.result)]

net_state_serialize(out) ==
  LET freed == <<Free("c_err_kind"), Free("c_err_msg")>>
  IN IF out.rc # NMSTATE_PASS
       THEN [events |-> freed, outcome |-> raise_map_error(out.err_kind, out.err_msg)]
     ELSE [events |-> freed, outcome |-> return_decoded(out.result)]

\* net_state_from_policy testing the status before it bridges the log
net_state_from_policy_raise_first(out) ==
  LET pl == parse_log(out.log)
      freed == <<Free("c_log"), Free("c_err_kind"), Free("c_err_msg")>>
  IN IF out.rc # NMSTATE_PASS
       THEN [events |-> <<>>, outcome |-> raise_map_error(out.err_kind, out.err_msg)]
     ELSE IF pl.exc.k = "raise" THEN [events |-> pl.events, outcome |-> pl.exc]
     ELSE [events |-> pl.events \o freed, outcome |-> return_decoded(out.result)]

net_state_from_policy(out) ==
  LET pl == parse_log(out.log)
      freed == <<Free("c_log"), Free("c_err_kind"), Free("c_err_msg")>>
  IN IF pl.exc.k = "raise" THEN [events |-> pl.events, outcome |-> pl.exc]
     ELSE IF out.rc # NMSTATE_PASS
       THEN [events |-> pl.events \o freed,
             outcome |-> raise_map_error(out.err_kind, out.err_msg)]
     ELSE [events |-> pl.events \o freed, outcome |-> return_decoded(out.result)]

\* the names of the operations, and the binding function of each
Ops == {"retrieve", "apply", "commit_checkpoint", "rollback_checkpoint",
        "gen_conf", "gen_diff", "net_state_serialize", "net_state_from_policy"}

Binding(op, out) ==
  CASE op = "retrieve" -> retrieve_net_state_json(out)
    [] op = "apply" -> apply_net_state(out)
    [] op = "commit_checkpoint" -> commit_checkpoint(out)
    [] op = "rollback_checkpoint" -> rollback_checkpoint(out)
    [] op = "gen_conf" -> gen_conf(out)
    [] op = "gen_diff" -> gen_diff(out)
    [] op = "net_state_serialize" -> net_state_serialize(out)
    [] op = "net_state_from_policy" -> net_state_from_policy(out)

\* the output slots each entry point has (the byref arguments of the call)
OutSlots(op) ==
  CASE op = "retrieve" -> {"result", "log", "err_kind", "err_msg"}
    [] op \in {"apply", "commit_checkpoint", "rollback_checkpoint"} ->
         {"log", "err_kind", "err_msg"}
    [] op \in {"gen_conf", "net_state_from_policy"} ->
         {"result", "log", "err_kind", "err_msg"}
    [] op \in {"gen_diff", "net_state_serialize"} -> {"result", "err_kind", "err_msg"}

\* the Python variable that holds each output slot of an operation
SlotBuffer(op, slot) ==
  CASE slot = "log" -> "c_log"
    [] slot = "err_kind" -> "c_err_kind"
    [] slot = "err_msg" -> "c_err_msg"
    [] slot = "result" ->
         (CASE op \in {"retrieve", "net_state_from_policy"} -> "c_state"
            [] op = "gen_conf" -> "c_configs"
            [] op = "gen_diff" -> "c_diff_state"
            [] op = "net_state_serialize" -> "c_formated_state"
            [] OTHER -> "none")

(***************************************************************************)
(* Arguments the binding functions pass to the engine.                      *)
(***************************************************************************)
\* x | bit, for a word x in which the bit is not yet set
BitOr(x, bit) == IF (x \div bit) % 2 = 1 THEN x ELSE x + bit
HasBit(x, bit) == (x \div bit) % 2 = 1

\* apply_net_state setting the no-commit bit when commit is asked for
apply_flags_commit_inverted(kernel_only, verify_change, commit, save_to_disk) ==
  LET f0 == NMSTATE_FLAG_NONE
      f1 == IF kernel_only THEN BitOr(f0, NMSTATE_FLAG_KERNEL_ONLY) ELSE f0
      f2 == IF ~verify_change THEN BitOr(f1, NMSTATE_FLAG_NO_VERIFY) ELSE f1
      f3 == IF commit THEN BitOr(f2, NMSTATE_FLAG_NO_COMMIT) ELSE f2
      f4 == IF ~save_to_disk THEN BitOr(f3, NMSTATE_FLAG_MEMORY_ONLY) ELSE f3
  IN f4

\* the flag word apply_net_state builds
apply_flags(kernel_only, verify_change, commit, save_to_disk) ==
  LET f0 == NMSTATE_FLAG_NONE
      f1 == IF kernel_only THEN BitOr(f0, NMSTATE_FLAG_KERNEL_ONLY) ELSE f0
      f2 == IF ~verify_change THEN BitOr(f1, NMSTATE_FLAG_NO_VERIFY) ELSE f1
      f3 == IF ~commit THEN BitOr(f2, NMSTATE_FLAG_NO_COMMIT) ELSE f2
      f4 == IF ~save_to_disk THEN BitOr(f3, NMSTATE_FLAG_MEMORY_ONLY) ELSE f3
  IN f4

\* retrieve_net_state_json with include_secrets setting the status-data bit
retrieve_flags_secrets_as_status(kernel_only, include_status_data, include_secrets, running_config_only) ==
  LET f0 == NMSTATE_FLAG_NONE
      f1 == IF kernel_only THEN BitOr(f0, NMSTATE_FLAG_KERNEL_ONLY) ELSE f0
      f2 == IF include_status_data THEN BitOr(f1, NMSTATE_FLAG_INCLUDE_STATUS_DATA) ELSE f1
      f3 == IF include_secrets THEN BitOr(f2, NMSTATE_FLAG_INCLUDE_STATUS_DATA) ELSE f2
      f4 == IF running_config_only THEN BitOr(f3, NMSTATE_FLAG_RUNNING_CONFIG_ONLY) ELSE f3
  IN f4

\* the flag word retrieve_net_state_json builds
retrieve_flags(kernel_only, include_status_data, include_secrets, running_config_only) ==
  LET f0 == NMSTATE_FLAG_NONE
      f1 == IF kernel_only THEN BitOr(f0, NMSTATE_FLAG_KERNEL_ONLY) ELSE f0
      f2 == IF include_status_data THEN BitOr(f1, NMSTATE_FLAG_INCLUDE_STATUS_DATA) ELSE f1
      f3 == IF include_secrets THEN BitOr(f2, NMSTATE_FLAG_INCLUDE_SECRETS) ELSE f2
      f4 == IF running_config_only THEN BitOr(f3, NMSTATE_FLAG_RUNNING_CONFIG_ONLY) ELSE f3
  IN f4

\* the timeout argument of lib.nmstate_net_state_apply
apply_timeout_arg(rollback_timeout) == rollback_timeout

\* gen_conf calling the apply entry point
gen_conf_entry_apply == "nmstate_net_state_apply"
\* the entry point gen_conf calls
gen_conf_entry == "nmstate_generate_configurations"

\* the entry point each checkpoint function calls
commit_checkpoint_entry == "nmstate_checkpoint_commit"
\* rollback_checkpoint calling the commit entry point
rollback_checkpoint_entry_commit == "nmstate_checkpoint_commit"
rollback_checkpoint_entry == "nmstate_checkpoint_rollback"

\* the arguments of a call, as the caller gives them (unused ones at default)
DefaultRollbackTimeout == 60

NoArgs ==
  [kernel_only |-> FALSE, verify_change |-> TRUE, save_to_disk |-> TRUE,
   commit |-> TRUE, rollback_timeout |-> DefaultRollbackTimeout,
   include_status_data |-> FALSE,
   include_secrets |-> FALSE, running_config_only |-> FALSE,
   checkpoint |-> PyNone, flags |-> 0]

ApplyArgs(kernel_only, verify_change, save_to_disk, commit, rollback_timeout) ==
  [NoArgs EXCEPT
     !.kernel_only = kernel_only, !.verify_change = verify_change,
     !.save_to_disk = save_to_disk, !.commit = commit,
     !.rollback_timeout = rollback_timeout,
     !.flags = apply_flags(kernel_only, verify_change, commit, save_to_disk)]

RetrieveArgs(kernel_only, include_status_data, include_secrets, running_config_only) ==
  [NoArgs EXCEPT
     !.kernel_only = kernel_only, !.include_status_data = include_status_data,
     !.include_secrets = include_secrets, !.running_config_only = running_config_only,
     !.flags = retrieve_flags(kernel_only, include_status_data, include_secrets,
                              running_config_only)]

CheckpointArgs(checkpoint) == [NoArgs EXCEPT !.checkpoint = checkpoint]

\* the record of one call: what went in, what the engine answered, what the
\* binding did; pre/previa/created are the engine's view of the transaction
\* the call addressed (before the call) and of the one it created
Call(op, args, out, pre, previa, created) ==
  [op |-> op, args |-> args, out |-> out, res |-> Binding(op, out),
   pre |-> pre, previa |-> previa, created |-> created]

NoCall ==
  [op |-> "none", args |-> NoArgs,
   out |-> [rc |-> 0, result |-> PyNone, log |-> PyNone, err_kind |-> PyNone, err_msg |-> PyNone],
   res |-> [events |-> <<>>, outcome |-> NoExc],
   pre |-> "NONE", previa |-> "", created |-> ""]

\* a call that is inside its engine entry point: the calling thread blocks
\* there, so the engine's work is done before the binding runs the rest of
\* the function. The record holds what the call was made with, whether the
\* engine succeeded, the engine's view of the transaction the call addressed
\* and of the one it created, and the document it read
InFlight(op, args, ok, pre, previa, created, doc) ==
  [op |-> op, args |-> args, ok |-> ok, pre |-> pre, previa |-> previa,
   created |-> created, doc |-> doc]

\* the caller is not inside an engine call
Idle == InFlight("none", NoArgs, FALSE, "NONE", "", "", "")

\* no gen_conf_apply context is open
NoCtx == [pc |-> "none"]

(***************************************************************************)
(* The engine: transaction table and watchdog.                              *)
(*                                                                          *)
(* A binding function blocks in its engine entry point: the engine changes  *)
(* the table there, and only after the entry point returns does the         *)
(* binding bridge the log, free the buffers and return or raise.  A call    *)
(* is therefore two steps, the engine's (Apply, CommitCheckpoint,           *)
(* RollbackCheckpoint, Retrieve, GenConf, ...) and the return               *)
(* (ApplyReturns, ...), with the call held in inflight in between, where    *)
(* the watchdog may act.  The caller issues one blocking call at a time.    *)
(***************************************************************************)
HandleName(i) == "K" \o ToString(i)
Handles == {HandleName(i) : i \in 1..MaxTxn}
Terminal == {"COMMITTED", "ROLLED_BACK"}
Allocated == {h \in Handles : txn[h] # "NONE"}
NextHandle == HandleName(Cardinality(Allocated) + 1)

\* the live network state, as the document a retrieval returns: the desired
\* states of the transactions in effect (applied and not rolled back), in order
RECURSIVE LiveFrom(_)
LiveFrom(i) ==
  IF i > MaxTxn THEN ""
  ELSE (IF txn[HandleName(i)] \in {"PENDING", "COMMITTED"} THEN HandleName(i) ELSE "")
         \o LiveFrom(i + 1)
LiveDoc == "live:" \o LiveFrom(1)

\* the error kinds of the engine
ListedKinds ==
  {"VerificationError", "InvalidArgument", "Bug", "PluginFailure",
   "NotImplementedError", "KernelIntegerRoundedError", "NotSupportedError",
   "DependencyError", "PermissionError"}

\* one well-formed log record
LogRecord(level) ==
  JObj([time |-> "t", file |-> "f", msg |-> "m", level |-> level])

\* the log batches the engine emits: always present, always well formed;
\* a successful call logs nothing or one INFO record, a failing one an ERROR
EngineOkLogs == {LogBytes(JList(<<>>)), LogBytes(JList(<<LogRecord("INFO")>>))}
EngineFailLog == LogBytes(JList(<<LogRecord("ERROR")>>))

EngineOk(result, log) ==
  [rc |-> 0, result |-> result, log |-> log, err_kind |-> PyNone, err_msg |-> PyNone]
EngineFail(kind) ==
  [rc |-> 1, result |-> PyNone, log |-> EngineFailLog, err_kind |-> Bytes(kind),
   err_msg |-> Bytes("reason")]

\* the transaction a checkpoint argument names, or "" when it names none
HandleOf(checkpoint) ==
  IF checkpoint.t = "bytes" /\ checkpoint.v \in Handles THEN checkpoint.v ELSE ""

Init ==
  /\ txn = [h \in Handles |-> "NONE"]
  /\ timer = [h \in Handles |-> 0]
  /\ via = [h \in Handles |-> ""]
  /\ last = NoCall
  /\ ctx = NoCtx
  /\ inflight = Idle

\* an apply that arms the watchdog whether or not the transaction is committed
EngineApplyOkAlwaysArmed(flags, timeout) ==
  /\ Cardinality(Allocated) < MaxTxn
  /\ IF HasBit(flags, NMSTATE_FLAG_NO_COMMIT)
       THEN txn' = [txn EXCEPT ![NextHandle] = "PENDING"]
       ELSE txn' = [txn EXCEPT ![NextHandle] = "COMMITTED"]
  /\ timer' = [timer EXCEPT ![NextHandle] = timeout]
  /\ via' = [via EXCEPT ![NextHandle] = "apply"]

\* nmstate_net_state_apply succeeds: NONE -> COMMITTED, or NONE -> PENDING
\* with the watchdog armed when the NO_COMMIT bit is set
EngineApplyOk(flags, timeout) ==
  /\ Cardinality(Allocated) < MaxTxn
  /\ IF HasBit(flags, NMSTATE_FLAG_NO_COMMIT)
       THEN /\ txn' = [txn EXCEPT ![NextHandle] = "PENDING"]
            /\ timer' = [timer EXCEPT ![NextHandle] = timeout]
       ELSE /\ txn' = [txn EXCEPT ![NextHandle] = "COMMITTED"]
            /\ timer' = timer
  /\ via' = [via EXCEPT ![NextHandle] = "apply"]

\* nmstate_generate_configurations computes from its input alone; the apply
\* entry point called in its place would commit the document it was given
EngineGenerate(entry, rc) ==
  IF entry = "nmstate_net_state_apply" /\ rc = NMSTATE_PASS
       /\ Cardinality(Allocated) < MaxTxn
    THEN /\ txn' = [txn EXCEPT ![NextHandle] = "COMMITTED"]
         /\ via' = [via EXCEPT ![NextHandle] = "apply"]
         /\ UNCHANGED timer
    ELSE UNCHANGED <<txn, timer, via>>

\* nmstate_checkpoint_commit / nmstate_checkpoint_rollback on a handle:
\* succeeds exactly on a PENDING transaction, whose watchdog it disarms
EngineCheckpointOk(entry, h) ==
  /\ h # ""
  /\ txn[h] = "PENDING"
  /\ txn' = [txn EXCEPT ![h] =
               IF entry = "nmstate_checkpoint_commit" THEN "COMMITTED" ELSE "ROLLED_BACK"]
  /\ timer' = [timer EXCEPT ![h] = 0]

\* the kinds the engine reports for a handle that is terminal or unknown
InvalidHandleKinds == {"InvalidArgument", "Bug"}

\* the kinds a failing apply reports: verification runs only when asked for
ApplyFailKinds(verify_change) ==
  IF verify_change THEN {"VerificationError", "InvalidArgument"} ELSE {"InvalidArgument"}

\* apply_net_state up to the return of nmstate_net_state_apply: the engine
\* has done its work (or refused) and the call has not returned yet
Apply ==
  /\ inflight = Idle
  /\ \E verify_change, commit \in BOOLEAN, rollback_timeout \in 0..MaxTimeout :
       LET args == ApplyArgs(FALSE, verify_change, TRUE, commit, rollback_timeout)
       IN \/ /\ EngineApplyOk(args.flags, apply_timeout_arg(rollback_timeout))
             /\ inflight' = InFlight("apply", args, TRUE, "NONE", "", NextHandle, "")
          \/ /\ inflight' = InFlight("apply", args, FALSE, "NONE", "", "", "")
             /\ UNCHANGED <<txn, timer, via>>
  /\ UNCHANGED <<last, ctx>>

\* apply_net_state after the engine call: the binding bridges the log, frees
\* the buffers and returns or raises
ApplyReturns ==
  /\ inflight.op = "apply"
  /\ \E out \in IF inflight.ok
                  THEN {EngineOk(PyNone, log) : log \in EngineOkLogs}
                  ELSE {EngineFail(kind) : kind \in ApplyFailKinds(inflight.args.verify_change)} :
       last' = Call("apply", inflight.args, out, inflight.pre, inflight.previa,
                    inflight.created)
  /\ inflight' = Idle
  /\ UNCHANGED <<txn, timer, via, ctx>>

\* commit_checkpoint up to the return of nmstate_checkpoint_commit
CommitCheckpoint ==
  /\ inflight = Idle
  /\ \E checkpoint \in {PyNone} \cup {Bytes(h) : h \in Handles} :
       LET h == HandleOf(checkpoint)
           pre == IF h = "" THEN "NONE" ELSE txn[h]
           previa == IF h = "" THEN "" ELSE via[h]
       IN \/ /\ EngineCheckpointOk(commit_checkpoint_entry, h)
             /\ via' = [via EXCEPT ![h] = "commit_checkpoint"]
             /\ inflight' = InFlight("commit_checkpoint", CheckpointArgs(checkpoint),
                                     TRUE, pre, previa, "", "")
          \/ /\ pre # "PENDING"
             /\ inflight' = InFlight("commit_checkpoint", CheckpointArgs(checkpoint),
                                     FALSE, pre, previa, "", "")
             /\ UNCHANGED <<txn, timer, via>>
  /\ UNCHANGED <<last, ctx>>

\* commit_checkpoint after the engine call
CommitCheckpointReturns ==
  /\ inflight.op = "commit_checkpoint"
  /\ \E out \in IF inflight.ok
                  THEN {EngineOk(PyNone, log) : log \in EngineOkLogs}
                  ELSE {EngineFail(kind) : kind \in InvalidHandleKinds} :
       last' = Call("commit_checkpoint", inflight.args, out, inflight.pre,
                    inflight.previa, inflight.created)
  /\ inflight' = Idle
  /\ UNCHANGED <<txn, timer, via, ctx>>

\* rollback_checkpoint up to the return of nmstate_checkpoint_rollback
RollbackCheckpoint ==
  /\ inflight = Idle
  /\ \E checkpoint \in {PyNone} \cup {Bytes(h) : h \in Handles} :
       LET h == HandleOf(checkpoint)
           pre == IF h = "" THEN "NONE" ELSE txn[h]
           previa == IF h = "" THEN "" ELSE via[h]
       IN \/ /\ EngineCheckpointOk(rollback_checkpoint_entry, h)
             /\ via' = [via EXCEPT ![h] = "rollback_checkpoint"]
             /\ inflight' = InFlight("rollback_checkpoint", CheckpointArgs(checkpoint),
                                     TRUE, pre, previa, "", "")
          \/ /\ pre # "PENDING"
             /\ inflight' = InFlight("rollback_checkpoint", CheckpointArgs(checkpoint),
                                     FALSE, pre, previa, "", "")
             /\ UNCHANGED <<txn, timer, via>>
  /\ UNCHANGED <<last, ctx>>

\* rollback_checkpoint after the engine call
RollbackCheckpointReturns ==
  /\ inflight.op = "rollback_checkpoint"
  /\ \E out \in IF inflight.ok
                  THEN {EngineOk(PyNone, log) : log \in EngineOkLogs}
                  ELSE {EngineFail(kind) : kind \in InvalidHandleKinds} :
       last' = Call("rollback_checkpoint", inflight.args, out, inflight.pre,
                    inflight.previa, inflight.created)
  /\ inflight' = Idle
  /\ UNCHANGED <<txn, timer, via, ctx>>

\* a watchdog that counts down and never rolls back
WatchdogNeverFires ==
  \E h \in Handles :
    /\ txn[h] = "PENDING"
    /\ timer[h] > 0
    /\ timer' = [timer EXCEPT ![h] = timer[h] - 1]
    /\ UNCHANGED <<txn, via, last, ctx, inflight>>

\* the watchdog of a pending transaction: counts down, then rolls back
Watchdog ==
  \E h \in Handles :
    /\ txn[h] = "PENDING"
    /\ IF timer[h] > 0
         THEN /\ timer' = [timer EXCEPT ![h] = timer[h] - 1]
              /\ UNCHANGED <<txn, via>>
         ELSE /\ txn' = [txn EXCEPT ![h] = "ROLLED_BACK"]
              /\ via' = [via EXCEPT ![h] = "watchdog"]
              /\ UNCHANGED timer
    /\ UNCHANGED <<last, ctx, inflight>>

\* the read-only and pure operations: the engine answers with a document or
\* with an error; no transaction is touched
ReadOnlyOuts(op, kinds, doc) ==
  {EngineOk(Bytes(doc), log) :
     log \in IF "log" \in OutSlots(op) THEN EngineOkLogs ELSE {PyNone}}
  \cup {[EngineFail(kind) EXCEPT !.log = IF "log" \in OutSlots(op) THEN EngineFailLog ELSE PyNone] :
          kind \in kinds}

\* retrieve_net_state_json up to the return of nmstate_net_state_retrieve:
\* the document is the engine's state at the time of the engine call
Retrieve ==
  /\ inflight = Idle
  /\ \E ok \in BOOLEAN :
       inflight' = InFlight("retrieve", NoArgs, ok, "NONE", "", "", LiveDoc)
  /\ UNCHANGED <<txn, timer, via, last, ctx>>

\* retrieve_net_state_json after the engine call
RetrieveReturns ==
  /\ inflight.op = "retrieve"
  /\ \E out \in {o \in ReadOnlyOuts("retrieve", {"PermissionError", "DependencyError"},
                                    inflight.doc) :
                   (o.rc = NMSTATE_PASS) = inflight.ok} :
       last' = Call("retrieve", NoArgs, out, inflight.pre, inflight.previa,
                    inflight.created)
  /\ inflight' = Idle
  /\ UNCHANGED <<txn, timer, via, ctx>>


\* gen_conf up to the return of nmstate_generate_configurations: the engine has computed its
\* answer from the call's input, and touches no transaction
GenConf ==
  /\ inflight = Idle
  /\ \E ok \in BOOLEAN :
       /\ inflight' = InFlight("gen_conf", NoArgs, ok, "NONE", "", "", "")
       /\ EngineGenerate(gen_conf_entry, IF ok THEN NMSTATE_PASS ELSE 1)
  /\ UNCHANGED <<last, ctx>>

\* gen_conf after the engine call
GenConfReturns ==
  /\ inflight.op = "gen_conf"
  /\ \E out \in {o \in ReadOnlyOuts("gen_conf", {"InvalidArgument", "NotSupportedError"}, "configs") :
                   (o.rc = NMSTATE_PASS) = inflight.ok} :
       last' = Call("gen_conf", NoArgs, out, inflight.pre, inflight.previa,
                    inflight.created)
  /\ inflight' = Idle
  /\ UNCHANGED <<txn, timer, via, ctx>>

\* gen_diff up to the return of nmstate_generate_differences: the engine has computed its
\* answer from the call's input, and touches no transaction
GenDiff ==
  /\ inflight = Idle
  /\ \E ok \in BOOLEAN :
       inflight' = InFlight("gen_diff", NoArgs, ok, "NONE", "", "", "")
  /\ UNCHANGED <<txn, timer, via, last, ctx>>

\* gen_diff after the engine call
GenDiffReturns ==
  /\ inflight.op = "gen_diff"
  /\ \E out \in {o \in ReadOnlyOuts("gen_diff", {"InvalidArgument"}, "diff") :
                   (o.rc = NMSTATE_PASS) = inflight.ok} :
       last' = Call("gen_diff", NoArgs, out, inflight.pre, inflight.previa,
                    inflight.created)
  /\ inflight' = Idle
  /\ UNCHANGED <<txn, timer, via, ctx>>

\* net_state_serialize up to the return of nmstate_net_state_format: the engine has computed its
\* answer from the call's input, and touches no transaction
NetStateSerialize ==
  /\ inflight = Idle
  /\ \E ok \in BOOLEAN :
       inflight' = InFlight("net_state_serialize", NoArgs, ok, "NONE", "", "", "")
  /\ UNCHANGED <<txn, timer, via, last, ctx>>

\* net_state_serialize after the engine call
NetStateSerializeReturns ==
  /\ inflight.op = "net_state_serialize"
  /\ \E out \in {o \in ReadOnlyOuts("net_state_serialize", {"InvalidArgument"}, "text") :
                   (o.rc = NMSTATE_PASS) = inflight.ok} :
       last' = Call("net_state_serialize", NoArgs, out, inflight.pre, inflight.previa,
                    inflight.created)
  /\ inflight' = Idle
  /\ UNCHANGED <<txn, timer, via, ctx>>

\* net_state_from_policy up to the return of nmstate_net_state_from_policy: the engine has computed its
\* answer from the call's input, and touches no transaction
NetStateFromPolicy ==
  /\ inflight = Idle
  /\ \E ok \in BOOLEAN :
       inflight' = InFlight("net_state_from_policy", NoArgs, ok, "NONE", "", "", "")
  /\ UNCHANGED <<txn, timer, via, last, ctx>>

\* net_state_from_policy after the engine call
NetStateFromPolicyReturns ==
  /\ inflight.op = "net_state_from_policy"
  /\ \E out \in {o \in ReadOnlyOuts("net_state_from_policy", {"InvalidArgument", "Bug"}, "state") :
                   (o.rc = NMSTATE_PASS) = inflight.ok} :
       last' = Call("net_state_from_policy", NoArgs, out, inflight.pre, inflight.previa,
                    inflight.created)
  /\ inflight' = Idle
  /\ UNCHANGED <<txn, timer, via, ctx>>

Next ==
  \/ Apply
  \/ ApplyReturns
  \/ CommitCheckpoint
  \/ CommitCheckpointReturns
  \/ RollbackCheckpoint
  \/ RollbackCheckpointReturns
  \/ Watchdog
  \/ Retrieve
  \/ RetrieveReturns
  \/ GenConf
  \/ GenConfReturns
  \/ GenDiff
  \/ GenDiffReturns
  \/ NetStateSerialize
  \/ NetStateSerializeReturns
  \/ NetStateFromPolicy
  \/ NetStateFromPolicyReturns

Spec == Init /\ [][Next]_vars

\* the watchdog is the engine's own timer: it keeps running whatever the caller does
FairSpec == Spec /\ WF_vars(Watchdog)

(***************************************************************************)
(* The binding functions against every answer an engine entry point can     *)
(* give: each output slot empty or filled, any status, any log payload.     *)
(* A state is one call: the engine has answered (res is Answered), then the *)
(* binding function runs.                                                   *)
(***************************************************************************)
Answered == [events |-> <<>>, outcome |-> [k |-> "answered", cls |-> "", v |-> PyNone]]

SeqsUpTo(S, n) == UNION {[1..k -> S] : k \in 0..n}

AnyKinds ==
  {PyNone, RawBytes(<<255>>), Bytes("SomethingElse")} \cup {Bytes(k) : k \in ListedKinds}
\* no message, two plain ones, and b"can't \xc3\xb6"
AnyMsgs ==
  {PyNone, Bytes("reason"), Bytes("other reason"),
   RawBytes(<<99, 97, 110, 39, 116, 32, 195, 182>>)}
AnyResults == {PyNone, Bytes("doc")}
\* four well-formed records that differ in every field, a record without
\* a level, and an entry that is no record
AnyEntries ==
  {JObj([time |-> "t1", file |-> "f1", msg |-> "m1", level |-> "ERROR"]),
   JObj([time |-> "t2", file |-> "f2", msg |-> "m2", level |-> "WARN"]),
   JObj([time |-> "t3", file |-> "f3", msg |-> "m3", level |-> "INFO"]),
   JObj([time |-> "t4", file |-> "f4", msg |-> "m4", level |-> "TRACE"]),
   JObj([time |-> "t", file |-> "f", msg |-> "m"]), JNum}
AnyLogs ==
  {PyNone, LogBytes(JInvalid), LogBytes(JNull), LogBytes(JObj(<<>>)), LogBytes(JStr("x"))}
  \cup {LogBytes(JList(items)) : items \in SeqsUpTo(AnyEntries, MaxLogLen)}

\* every answer of the entry point of op: only its own output slots are filled
AnyOuts(op) ==
  [rc : {NMSTATE_PASS, 1},
   result : IF "result" \in OutSlots(op) THEN AnyResults ELSE {PyNone},
   log : IF "log" \in OutSlots(op) THEN AnyLogs ELSE {PyNone},
   err_kind : AnyKinds,
   err_msg : AnyMsgs]

AnyArgs(op) ==
  IF op = "apply"
    THEN {ApplyArgs(ko, vc, sd, cm, DefaultRollbackTimeout) : ko \in BOOLEAN, vc \in BOOLEAN,
                                         sd \in BOOLEAN, cm \in BOOLEAN}
  ELSE IF op = "retrieve"
    THEN {RetrieveArgs(ko, sd, sc, rc) : ko \in BOOLEAN, sd \in BOOLEAN,
                                         sc \in BOOLEAN, rc \in BOOLEAN}
  ELSE IF op \in {"commit_checkpoint", "rollback_checkpoint"}
    THEN {CheckpointArgs(c) : c \in {PyNone, Bytes(HandleName(1))}}
  ELSE {NoArgs}

GwInit ==
  /\ ctx = NoCtx
  /\ inflight = Idle
  /\ txn = [h \in Handles |-> "NONE"]
  /\ timer = [h \in Handles |-> 0]
  /\ via = [h \in Handles |-> ""]
  /\ \E op \in Ops :
       \E args \in AnyArgs(op), out \in AnyOuts(op) :
         last = [op |-> op, args |-> args, out |-> out, res |-> Answered,
                 pre |-> "NONE", previa |-> "", created |-> ""]

\* the binding function runs on the engine's answer
GwRetrieve ==
  /\ last.op = "retrieve"
  /\ last.res = Answered
  /\ last' = [last EXCEPT !.res = retrieve_net_state_json(last.out)]
  /\ UNCHANGED <<txn, timer, via, ctx, inflight>>

GwApply ==
  /\ last.op = "apply"
  /\ last.res = Answered
  /\ last' = [last EXCEPT !.res = apply_net_state(last.out)]
  /\ UNCHANGED <<txn, timer, via, ctx, inflight>>

GwCommitCheckpoint ==
  /\ last.op = "commit_checkpoint"
  /\ last.res = Answered
  /\ last' = [last EXCEPT !.res = commit_checkpoint(last.out)]
  /\ UNCHANGED <<txn, timer, via, ctx, inflight>>

GwRollbackCheckpoint ==
  /\ last.op = "rollback_checkpoint"
  /\ last.res = Answered
  /\ last' = [last EXCEPT !.res = rollback_checkpoint(last.out)]
  /\ UNCHANGED <<txn, timer, via, ctx, inflight>>

GwGenConf ==
  /\ last.op = "gen_conf"
  /\ last.res = Answered
  /\ last' = [last EXCEPT !.res = gen_conf(last.out)]
  /\ UNCHANGED <<txn, timer, via, ctx, inflight>>

GwGenDiff ==
  /\ last.op = "gen_diff"
  /\ last.res = Answered
  /\ last' = [last EXCEPT !.res = gen_diff(last.out)]
  /\ UNCHANGED <<txn, timer, via, ctx, inflight>>

GwNetStateSerialize ==
  /\ last.op = "net_state_serialize"
  /\ last.res = Answered
  /\ last' = [last EXCEPT !.res = net_state_serialize(last.out)]
  /\ UNCHANGED <<txn, timer, via, ctx, inflight>>

GwNetStateFromPolicy ==
  /\ last.op = "net_state_from_policy"
  /\ last.res = Answered
  /\ last' = [last EXCEPT !.res = net_state_from_policy(last.out)]
  /\ UNCHANGED <<txn, timer, via, ctx, inflight>>

GwNext ==
  \/ GwRetrieve
  \/ GwApply
  \/ GwCommitCheckpoint
  \/ GwRollbackCheckpoint
  \/ GwGenConf
  \/ GwGenDiff
  \/ GwNetStateSerialize
  \/ GwNetStateFromPolicy

GatewaySpec == GwInit /\ [][GwNext]_vars

(***************************************************************************)
(* gen_conf_apply (tests/integration/testlib/genconf.py): the context       *)
(* manager that saves the generated connection files, reloads, runs the     *)
(* body of the with statement, and cleans up.  ctx holds its local          *)
(* variables, the connection folder's content, the calls it has issued and  *)
(* the exception (named by the step that raised it) that is propagating.    *)
(***************************************************************************)
NM_CONN_FOLDER == "/etc/NetworkManager/system-connections"
IfaceNames == {"eth1", "eth2"}
FileNames == {"a.nmconnection", "b.nmconnection"}

\* f"{NM_CONN_FOLDER}/{file_name}"
file_path(file_name) == NM_CONN_FOLDER \o "/" \o file_name

\* the keys and values of libnmstate.schema the context manager uses
Interface_KEY == "interfaces"
Interface_NAME == "name"
Interface_STATE == "state"
InterfaceState_ABSENT == "absent"
DNS_KEY == "dns-resolver"
DNS_CONFIG == "config"
DNS_SERVER == "server"
DNS_SEARCH == "search"

\* the absent state the finally block builds from iface_names
absent_state(iface_names) ==
  (Interface_KEY :>
     [i \in DOMAIN iface_names |->
        (Interface_NAME :> iface_names[i] @@ Interface_STATE :> InterfaceState_ABSENT)])
  @@ (DNS_KEY :> (DNS_CONFIG :> (DNS_SERVER :> <<>> @@ DNS_SEARCH :> <<>>)))

\* the with statement is entered with a desired state naming some interfaces
GcaInit ==
  /\ txn = [h \in Handles |-> "NONE"]
  /\ timer = [h \in Handles |-> 0]
  /\ via = [h \in Handles |-> ""]
  /\ last = NoCall
  /\ inflight = Idle
  /\ \E desire \in SeqsUpTo(IfaceNames, MaxIfaces) :
       ctx = [pc |-> "enter", desire |-> desire, iface_names |-> <<>>,
              conns |-> <<>>, file_paths |-> <<>>, disk |-> {},
              applied |-> <<>>, unlinked |-> <<>>, exc |-> ""]

\* lines 19-22: the interface names are collected before the try block
GcaEnter ==
  /\ ctx.pc = "enter"
  /\ ctx' = [ctx EXCEPT !.iface_names = ctx.desire, !.file_paths = <<>>,
                        !.pc = "generate"]
  /\ UNCHANGED <<txn, timer, via, last, inflight>>

\* lines 24-26: the configurations are generated, or the generation raises
GcaGenerate ==
  /\ ctx.pc = "generate"
  /\ \/ \E conns \in SeqsUpTo(FileNames, MaxConns) :
          ctx' = [ctx EXCEPT !.conns = conns, !.pc = "save"]
     \/ ctx' = [ctx EXCEPT !.exc = "generate", !.pc = "finally"]
  /\ UNCHANGED <<txn, timer, via, last, inflight>>

\* lines 27-28 and save_nmconnection: the next connection is written and its
\* path recorded; or open raises; or the file is written and chmod/chown raises
GcaSave ==
  /\ ctx.pc = "save"
  /\ Len(ctx.file_paths) < Len(ctx.conns)
  /\ LET path == file_path(ctx.conns[Len(ctx.file_paths) + 1])
     IN \/ ctx' = [ctx EXCEPT !.disk = ctx.disk \cup {path},
                              !.file_paths = Append(ctx.file_paths, path)]
        \/ ctx' = [ctx EXCEPT !.exc = "save", !.pc = "finally"]
        \/ ctx' = [ctx EXCEPT !.disk = ctx.disk \cup {path},
                              !.exc = "save", !.pc = "finally"]
  /\ UNCHANGED <<txn, timer, via, last, inflight>>

\* line 29 and reload_nm_connection: the reload command succeeds or raises
GcaReload ==
  /\ ctx.pc = "save"
  /\ Len(ctx.file_paths) = Len(ctx.conns)
  /\ \/ ctx' = [ctx EXCEPT !.pc = "body"]
     \/ ctx' = [ctx EXCEPT !.exc = "reload", !.pc = "finally"]
  /\ UNCHANGED <<txn, timer, via, last, inflight>>

\* line 30: the body of the with statement finishes or raises
GcaBody ==
  /\ ctx.pc = "body"
  /\ \/ ctx' = [ctx EXCEPT !.pc = "finally"]
     \/ ctx' = [ctx EXCEPT !.exc = "body", !.pc = "finally"]
  /\ UNCHANGED <<txn, timer, via, last, inflight>>

\* lines 32-43: the absent state is applied with verify_change=False; when
\* the apply raises, the exception leaves the finally block at once
GcaCleanupApply ==
  /\ ctx.pc = "finally"
  /\ LET call == [state |-> absent_state(ctx.iface_names), verify_change |-> FALSE]
     IN \/ ctx' = [ctx EXCEPT !.applied = Append(ctx.applied, call), !.pc = "unlink"]
        \/ ctx' = [ctx EXCEPT !.applied = Append(ctx.applied, call),
                              !.exc = "apply", !.pc = "exit"]
  /\ UNCHANGED <<txn, timer, via, last, inflight>>

\* lines 44-48: the next recorded path is unlinked; a failing unlink (the
\* file is missing, or any other failure) is ignored
GcaUnlink ==
  /\ ctx.pc = "unlink"
  /\ Len(ctx.unlinked) < Len(ctx.file_paths)
  /\ LET path == ctx.file_paths[Len(ctx.unlinked) + 1]
     IN \/ /\ path \in ctx.disk
           /\ ctx' = [ctx EXCEPT !.disk = ctx.disk \ {path},
                                 !.unlinked = Append(ctx.unlinked, path)]
        \/ ctx' = [ctx EXCEPT !.unlinked = Append(ctx.unlinked, path)]
  /\ UNCHANGED <<txn, timer, via, last, inflight>>

\* the end of the finally block: the context is left, a pending exception
\* propagates
GcaExit ==
  /\ ctx.pc = "unlink"
  /\ Len(ctx.unlinked) = Len(ctx.file_paths)
  /\ ctx' = [ctx EXCEPT !.pc = "exit"]
  /\ UNCHANGED <<txn, timer, via, last, inflight>>

GcaNext ==
  \/ GcaEnter
  \/ GcaGenerate
  \/ GcaSave
  \/ GcaReload
  \/ GcaBody
  \/ GcaCleanupApply
  \/ GcaUnlink
  \/ GcaExit

GenConfApplySpec == GcaInit /\ [][GcaNext]_vars

\* a call the binding function has finished
Completed == last.op \in Ops /\ last.res # Answered

(***************************************************************************)
(* Properties.                                                              *)
(***************************************************************************)
CheckpointOps == {"commit_checkpoint", "rollback_checkpoint"}
LogBridgingOps ==
  {"retrieve", "apply", "commit_checkpoint", "rollback_checkpoint", "gen_conf",
   "net_state_from_policy"}

\* the caller-facing error variants of the taxonomy
NamedVariants ==
  {"NmstateVerificationError", "NmstateValueError", "NmstateInternalError",
   "NmstatePluginError", "NmstateNotImplementedError",
   "NmstateKernelIntegerRoundedError", "NmstateNotSupportedError",
   "NmstateDependencyError", "NmstatePermissionError"}
GenericVariant == "NmstateError"

\* the last call raised an error of the taxonomy
RaisedTaxonomyError ==
  /\ last.res.outcome.k = "raise"
  /\ last.res.outcome.cls \in NamedVariants \cup {GenericVariant}

\* the last call was a checkpoint operation on handle h
CheckpointCallOn(h) ==
  /\ last.op \in CheckpointOps
  /\ last.args.checkpoint = Bytes(h)

\* C1: whenever apply is invoked with commit=false and the engine reports
\* success, the caller of apply obtains a checkpoint handle that identifies
\* the transaction the call left PENDING.
C1_ApplyReturnsHandle ==
  (last.op = "apply" /\ ~last.args.commit /\ last.out.rc = NMSTATE_PASS)
    => /\ last.res.outcome.k = "return"
       /\ last.created # ""
       /\ last.res.outcome.v = Bytes(last.created)

\* a checkpoint call on a handle that a checkpoint call had already resolved
C2_ConsumedCallRejected ==
  \A h \in Handles :
    (CheckpointCallOn(h) /\ last.pre \in Terminal /\ last.previa \in CheckpointOps)
      => /\ RaisedTaxonomyError
         /\ txn[h] = last.pre
         /\ via[h] = last.previa

\* a step leaves a handle resolved by a checkpoint call as it is
C2_ConsumedStaysTerminal ==
  \A h \in Handles :
    (txn[h] \in Terminal /\ via[h] \in CheckpointOps)
      => (txn'[h] = txn[h] /\ via'[h] = via[h])

\* C2: a handle consumed by a successful commit_checkpoint or
\* rollback_checkpoint is invalid afterwards: every later commit_checkpoint or
\* rollback_checkpoint on it raises an error of the taxonomy and leaves the
\* terminal state as it was.
C2_ConsumedHandleInvalid ==
  [](C2_ConsumedCallRejected) /\ [][C2_ConsumedStaysTerminal]_vars

C2_Witness ==
  /\ last.op = "rollback_checkpoint"
  /\ last.pre = "COMMITTED"
  /\ last.previa = "commit_checkpoint"
  /\ last.res.outcome.k = "raise"


\* the step in which the watchdog resolves a transaction
C3_WatchdogFiresToRolledBack ==
  \A h \in Handles :
    (via'[h] = "watchdog" /\ via[h] # "watchdog")
      => (txn[h] = "PENDING" /\ txn'[h] = "ROLLED_BACK")

\* a checkpoint call on a handle the watchdog had already resolved
C3_ExpiredCallRejected ==
  \A h \in Handles :
    /\ via[h] = "watchdog" => txn[h] = "ROLLED_BACK"
    /\ (CheckpointCallOn(h) /\ last.previa = "watchdog")
         => /\ last.pre = "ROLLED_BACK"
            /\ RaisedTaxonomyError
            /\ txn[h] = "ROLLED_BACK"

\* C3: a transaction left PENDING that the watchdog reaches before any commit
\* or rollback becomes ROLLED_BACK, and every later commit_checkpoint or
\* rollback_checkpoint on its handle raises an error of the taxonomy instead
\* of succeeding.
C3_ExpiredHandleInvalid ==
  [](C3_ExpiredCallRejected) /\ [][C3_WatchdogFiresToRolledBack]_vars

C3_Witness ==
  /\ last.op = "commit_checkpoint"
  /\ last.previa = "watchdog"
  /\ last.res.outcome.k = "raise"
  /\ \E h \in Handles : CheckpointCallOn(h) /\ txn[h] = "ROLLED_BACK"

\* C4: every transaction that becomes PENDING eventually reaches COMMITTED or
\* ROLLED_BACK, given only that the watchdog keeps running; the caller need
\* not call again after apply.
C4_PendingResolves ==
  \A h \in Handles : (txn[h] = "PENDING") ~> (txn[h] \in Terminal)

\* the watchdog resolved the transaction of the last apply; no call followed
C4_Witness ==
  /\ last.op = "apply"
  /\ ~last.args.commit
  /\ last.created # ""
  /\ txn[last.created] = "ROLLED_BACK"
  /\ via[last.created] = "watchdog"

\* the step in which a call of op enters the engine and the engine acts
EngineStep(op) == inflight = Idle /\ inflight'.op = op

\* the step in which the engine call of op returns and the binding finishes
ReturnStep(op) == inflight.op = op /\ inflight' = Idle

\* the steps that make a transaction COMMITTED, and the watchdog's step
C5_CommitStep ==
  \A h \in Handles :
    /\ (txn'[h] = "COMMITTED" /\ txn[h] # "COMMITTED")
         => \/ /\ txn[h] = "NONE"
               /\ EngineStep("apply")
               /\ inflight'.args.commit
               /\ inflight'.created = h
               /\ inflight'.ok
            \/ /\ txn[h] = "PENDING"
               /\ EngineStep("commit_checkpoint")
               /\ inflight'.args.checkpoint = Bytes(h)
               /\ inflight'.ok
    /\ (via'[h] = "watchdog" /\ via[h] # "watchdog")
         => (txn[h] = "PENDING" /\ txn'[h] = "ROLLED_BACK")

\* C5: a transaction reaches COMMITTED only through apply with commit=true
\* or through a successful commit_checkpoint on a PENDING handle; the
\* watchdog only ever takes PENDING to ROLLED_BACK.
C5_CommittedOnlyExplicitly ==
  [](\A h \in Handles :
       txn[h] = "COMMITTED" => via[h] \in {"apply", "commit_checkpoint"})
  /\ [][C5_CommitStep]_vars

C5_Witness ==
  \E h1, h2 \in Handles :
    /\ txn[h1] = "COMMITTED"
    /\ via[h1] = "commit_checkpoint"
    /\ txn[h2] = "ROLLED_BACK"
    /\ via[h2] = "watchdog"


\* number of times a buffer is released in a sequence of events
FreeCount(events, buf) ==
  Cardinality({i \in DOMAIN events : events[i] = Free(buf)})

\* the last call got past log bridging and the releases, and into the
\* "raise map_error(err_kind, err_msg)" of a failing call
ReachedMapError ==
  /\ Completed
  /\ last.op # "retrieve"
  /\ last.out.rc # NMSTATE_PASS
  /\ FreeCount(last.res.events, "c_err_msg") = 1

\* C6: for every call, on every exit path, each output buffer the engine
\* could have populated for the operation (primary result, log batch, error
\* kind, error message) is released exactly once.
C6_EveryBufferReleasedOnce ==
  Completed =>
    \A slot \in OutSlots(last.op) :
      FreeCount(last.res.events, SlotBuffer(last.op, slot)) = 1

\* C7: for every operation, an engine-reported failure reaches the caller as
\* the error variant map_error selects from the reported kind; a retrieve
\* that fails with kind PermissionError or DependencyError raises that named
\* variant.
C7_FailureRaisedAsMappedVariant ==
  (Completed /\ last.out.rc # NMSTATE_PASS)
    => /\ last.res.outcome = raise_map_error(last.out.err_kind, last.out.err_msg)
       /\ last.out.err_kind = Bytes("PermissionError")
            => last.res.outcome.cls = "NmstatePermissionError"
       /\ last.out.err_kind = Bytes("DependencyError")
            => last.res.outcome.cls = "NmstateDependencyError"

\* C8: a malformed or missing log payload is treated as an empty log batch:
\* for every log-bridging operation and every log payload, the call returns
\* or raises what it would with an empty batch.
C8_LogPayloadNeverChangesOutcome ==
  (Completed /\ last.op \in LogBridgingOps)
    => last.res.outcome =
         Binding(last.op, [last.out EXCEPT !.log = LogBytes(JList(<<>>))]).outcome

\* C9: the error mapping depends on the kind alone and covers the table: each
\* of the nine listed kinds yields its own named variant, different from the
\* variant of every other listed kind and from the generic one, carrying the
\* message unchanged; any other kind yields the generic variant with the
\* message "<kind>: <message>".
C9_MappingCoversTable ==
  (ReachedMapError /\ Decodable(last.out.err_kind) /\ Decodable(last.out.err_msg))
    => LET kind == decode(last.out.err_kind).v
           msg == decode(last.out.err_msg).v
           o == last.res.outcome
       IN /\ o.k = "raise"
          /\ \A m2 \in {"reason", "other reason", ""} :
               map_error(last.out.err_kind, Bytes(m2)).cls = o.cls
          /\ IF kind \in {Str(k) : k \in ListedKinds}
               THEN /\ o.cls \in NamedVariants
                    /\ o.v = msg
                    /\ \A k2 \in ListedKinds \ {kind.v} :
                         map_error(Bytes(k2), last.out.err_msg).cls # o.cls
               ELSE /\ o.cls = GenericVariant
                    /\ o.v = Cat(kind, Cat(Str(": "), msg))

C9_Witness ==
  /\ ReachedMapError
  /\ last.op = "gen_diff"
  /\ last.out.err_kind = Bytes("SomethingElse")
  /\ last.out.err_msg = RawBytes(<<99, 97, 110, 39, 116, 32, 195, 182>>)
  /\ last.res.outcome =
       Raise("NmstateError",
             StrUtf8(encode("SomethingElse: can't ") \o <<195, 182>>))

\* C10: the error mapping is total: for every failing call, also one whose
\* error-kind or error-message slot the engine left empty, map_error yields
\* an error value of the taxonomy and does not fail itself.
C10_MapErrorTotal ==
  (ReachedMapError /\ ~Undecodable(last.out.err_kind) /\ ~Undecodable(last.out.err_msg))
    => /\ map_error(last.out.err_kind, last.out.err_msg).k = "return"
       /\ RaisedTaxonomyError


\* the bit of a selected option, nothing for an option not selected
Selected(option, bit) == IF option THEN bit ELSE 0

\* the bits an apply call selects, and the bits a retrieve call selects
ApplySelectedBits(a) ==
  Selected(a.kernel_only, 2) + Selected(~a.verify_change, 4)
    + Selected(~a.commit, 32) + Selected(~a.save_to_disk, 64)
RetrieveSelectedBits(a) ==
  Selected(a.kernel_only, 2) + Selected(a.include_status_data, 8)
    + Selected(a.include_secrets, 16) + Selected(a.running_config_only, 128)

\* C11: for every combination of the boolean options, the flag word sent to
\* the engine is the bitwise OR of exactly the bits of the selected options
\* (apply: kernel_only, not verify_change, not commit, not save_to_disk;
\* retrieve: kernel_only, include_status_data, include_secrets,
\* running_config_only); each bit is set if and only if its own option
\* selects it, and a call with every option at its default sends 0.
C11_FlagWordIsOrOfSelectedBits ==
  LET a == last.args
  IN /\ last.op = "apply" =>
          /\ a.flags = ApplySelectedBits(a)
          /\ HasBit(a.flags, 2) <=> a.kernel_only
          /\ HasBit(a.flags, 4) <=> ~a.verify_change
          /\ HasBit(a.flags, 32) <=> ~a.commit
          /\ HasBit(a.flags, 64) <=> ~a.save_to_disk
          /\ \A bit \in {1, 8, 16, 128} : ~HasBit(a.flags, bit)
          /\ (~a.kernel_only /\ a.verify_change /\ a.commit /\ a.save_to_disk)
               => a.flags = 0
     /\ last.op = "retrieve" =>
          /\ a.flags = RetrieveSelectedBits(a)
          /\ HasBit(a.flags, 2) <=> a.kernel_only
          /\ HasBit(a.flags, 8) <=> a.include_status_data
          /\ HasBit(a.flags, 16) <=> a.include_secrets
          /\ HasBit(a.flags, 128) <=> a.running_config_only
          /\ \A bit \in {1, 4, 32, 64} : ~HasBit(a.flags, bit)
          /\ (~a.kernel_only /\ ~a.include_status_data /\ ~a.include_secrets
              /\ ~a.running_config_only) => a.flags = 0

\* a completed retrieve with every option selected
C11_Witness ==
  /\ Completed
  /\ last.op = "retrieve"
  /\ last.args.kernel_only /\ last.args.include_status_data
  /\ last.args.include_secrets /\ last.args.running_config_only
  /\ last.args.flags = 154


\* the handles on which a commit_checkpoint or rollback_checkpoint would succeed
Usable == {h \in Handles : txn[h] = "PENDING"}

\* the last call was an apply the engine failed
FailedApply == last.op = "apply" /\ last.out.rc # NMSTATE_PASS

\* the steps of a failing apply: the engine creates nothing and leaves the
\* table as it was, and the call raises when the engine call returns
C12_FailedApplyStep ==
  /\ (EngineStep("apply") /\ ~inflight'.ok)
       => /\ inflight'.created = ""
          /\ txn' = txn
          /\ timer' = timer
          /\ {h \in Handles : txn'[h] = "PENDING"} = Usable
  /\ (ReturnStep("apply") /\ ~inflight.ok)
       => /\ last'.out.rc # NMSTATE_PASS
          /\ last'.res.outcome.k = "raise"
          /\ last'.created = ""
          /\ txn' = txn
          /\ timer' = timer

\* C12: an apply that fails, whatever its flags (commit=false included),
\* leaves no caller-visible pending transaction: the engine creates no
\* transaction and leaves the set of handles on which a later
\* commit_checkpoint or rollback_checkpoint would succeed as it was, and
\* when the engine call returns the call raises and returns no checkpoint
\* handle.
C12_FailedApplyLeavesNoCheckpoint ==
  [](FailedApply => (last.res.outcome.k = "raise" /\ last.created = ""))
  /\ [][C12_FailedApplyStep]_vars

\* a failed apply with commit=false, with no transaction in the table at all
C12_Witness ==
  /\ FailedApply
  /\ ~last.args.commit
  /\ last.res.outcome.k = "raise"
  /\ Usable = {}
  /\ Allocated = {}

\* a checkpoint call on a transaction that apply committed is rejected
C13_CommittedByApplyRejected ==
  /\ (inflight.op = "apply" /\ inflight.args.commit /\ inflight.ok)
       => txn[inflight.created] = "COMMITTED"
  /\ (last.op = "apply" /\ last.args.commit /\ last.out.rc = NMSTATE_PASS)
       => /\ last.res.outcome = Return(PyNone)
          /\ last.created # ""
          /\ txn[last.created] = "COMMITTED"
  /\ \A h \in Handles :
       (CheckpointCallOn(h) /\ last.previa = "apply" /\ last.pre = "COMMITTED")
         => (RaisedTaxonomyError /\ txn[h] = "COMMITTED")

\* the step of a successful apply with commit=true, and every later step
C13_DirectCommitStep ==
  /\ (EngineStep("apply") /\ inflight'.args.commit /\ inflight'.ok)
       => /\ inflight'.created # ""
          /\ txn[inflight'.created] = "NONE"
          /\ txn'[inflight'.created] = "COMMITTED"
  /\ (ReturnStep("apply") /\ inflight.args.commit /\ inflight.ok)
       => /\ last'.res.outcome = Return(PyNone)
          /\ last'.created = inflight.created
          /\ txn'[last'.created] = "COMMITTED"
  /\ \A h \in Handles :
       (txn[h] = "COMMITTED" /\ via[h] = "apply")
         => (txn'[h] = "COMMITTED" /\ via'[h] = "apply")

\* C13: an apply with commit=true that succeeds takes its transaction from
\* NONE to COMMITTED in the engine's one step: the transaction is never
\* PENDING, not even before the call has returned, the call returns no
\* checkpoint handle, the transaction stays COMMITTED, and every later
\* commit_checkpoint or rollback_checkpoint against it raises an error.
C13_CommitTrueGoesStraightToCommitted ==
  [](C13_CommittedByApplyRejected) /\ [][C13_DirectCommitStep]_vars

\* a rollback_checkpoint attempted on a transaction that apply had committed
C13_Witness ==
  /\ last.op = "rollback_checkpoint"
  /\ last.pre = "COMMITTED"
  /\ last.previa = "apply"
  /\ last.res.outcome.k = "raise"
  /\ \E h \in Handles : CheckpointCallOn(h) /\ txn[h] = "COMMITTED"


\* the log records among the events of a call, in order
LogEvents(events) == SelectSeq(events, LAMBDA e : e.e = "log")

\* a log payload that is a list of complete records
WellFormedBatch(log) ==
  /\ log.t = "bytes"
  /\ log.json.j = "list"
  /\ \A i \in DOMAIN log.json.items :
       /\ log.json.items[i].j = "obj"
       /\ DOMAIN log.json.items[i].d = {"time", "file", "msg", "level"}

\* C14: log bridging follows the documented asymmetry: retrieve, apply,
\* commit_checkpoint, rollback_checkpoint, gen_conf and net_state_from_policy
\* pass the log payload of every call, successful or failing, through the
\* bridge (a well-formed batch of n records gives n log records), while
\* gen_diff and net_state_serialize never emit a log record.
C14_LogBridgingAsymmetry ==
  Completed =>
    IF last.op \in LogBridgingOps
      THEN /\ LogEvents(last.res.events) = parse_log(last.out.log).events
           /\ WellFormedBatch(last.out.log)
                => Len(LogEvents(last.res.events)) = Len(last.out.log.json.items)
      ELSE /\ last.op \in {"gen_diff", "net_state_serialize"}
           /\ LogEvents(last.res.events) = <<>>

\* a successful gen_conf that bridged a batch of two records
C14_Witness ==
  /\ Completed
  /\ last.op = "gen_conf"
  /\ last.out.rc = NMSTATE_PASS
  /\ WellFormedBatch(last.out.log)
  /\ Len(last.out.log.json.items) = 2
  /\ Len(LogEvents(last.res.events)) = 2


\* what a retrieve issued in the current state returns
RetrieveNow == retrieve_net_state_json(EngineOk(Bytes(LiveDoc), LogBytes(JList(<<>>)))).outcome

\* the two steps of a gen_conf call, the engine's and the return: neither
\* touches a transaction, a watchdog or the live state
C15_GenConfStep ==
  (EngineStep("gen_conf") \/ ReturnStep("gen_conf"))
    => /\ txn' = txn
       /\ timer' = timer
       /\ via' = via
       /\ LiveDoc' = LiveDoc
       /\ RetrieveNow' = RetrieveNow

\* a step taken while the gen_conf call is inside the engine is the
\* engine's watchdog: a PENDING transaction's timer counts down, or the
\* transaction whose timer ran out is rolled back, and nothing else changes
C15_DuringGenConf ==
  (inflight.op = "gen_conf" /\ inflight' = inflight)
    => \E h \in Handles :
         /\ txn[h] = "PENDING"
         /\ \A g \in Handles \ {h} : txn'[g] = txn[g] /\ timer'[g] = timer[g]
         /\ IF timer[h] > 0
              THEN /\ txn' = txn
                   /\ timer'[h] = timer[h] - 1
                   /\ RetrieveNow' = RetrieveNow
              ELSE /\ txn'[h] = "ROLLED_BACK"
                   /\ via'[h] = "watchdog"
                   /\ timer' = timer

\* the steps of a successful retrieve: the engine reads the live state's
\* document, and the call returns the document the engine read
C15_RetrieveStep ==
  /\ (EngineStep("retrieve") /\ inflight'.ok)
       => /\ inflight'.doc = LiveDoc
          /\ Return(Str(inflight'.doc)) = RetrieveNow
          /\ LiveDoc' = LiveDoc
  /\ (ReturnStep("retrieve") /\ inflight.ok)
       => /\ last'.res.outcome = Return(Str(inflight.doc))
          /\ LiveDoc' = LiveDoc

\* C15 as stated: from the moment a gen_conf call is made to the moment it
\* returns, every transaction's state, every watchdog timer and the live
\* network state stay as they were, so a retrieve immediately before the
\* call and one immediately after it return the same document.
C15_NothingChangesAcrossGenConf ==
  [][(EngineStep("gen_conf") \/ inflight.op = "gen_conf")
       => /\ txn' = txn
          /\ timer' = timer
          /\ RetrieveNow' = RetrieveNow]_vars

\* C15, amended: gen_conf itself has no transaction or live-state effect:
\* neither its engine step nor its return (successful or failing) changes a
\* transaction, a watchdog timer or the live network state, whatever
\* operations came before.  While the call is inside the engine the only
\* thing that changes is a PENDING transaction's watchdog, counting down or
\* rolling the transaction back when its timeout runs out; so a retrieve
\* immediately before and one immediately after a gen_conf return the same
\* document unless a watchdog rolled a transaction back in between.  A
\* retrieve returns the document of the live state the engine read.
C15_GenConfTouchesNothing ==
  [][C15_GenConfStep /\ C15_DuringGenConf /\ C15_RetrieveStep]_vars

\* a gen_conf call made while one transaction is pending with its watchdog
\* armed and another is committed
C15_Witness ==
  /\ last.op = "gen_conf"
  /\ last.res.outcome.k = "return"
  /\ \E h1, h2 \in Handles :
       /\ txn[h1] = "COMMITTED"
       /\ txn[h2] = "PENDING"
       /\ timer[h2] > 0
  /\ RetrieveNow = Return(Str("live:K1K2"))


\* the records the bridge owes for a payload: none for a missing payload or
\* one that is not JSON, the n records of a well-formed batch
Deliverable(log) ==
  IF log.t = "none" \/ log.json.j = "invalid" THEN <<>> ELSE log.json.items

\* positions of the log records and of the buffer releases among the events
LogPositions(events) == {i \in DOMAIN events : events[i].e = "log"}
FreePositions(events) == {i \in DOMAIN events : events[i].e = "free"}

\* C16: on a failing call of a log-bridging operation (retrieve, apply,
\* commit_checkpoint, rollback_checkpoint, gen_conf, net_state_from_policy)
\* whose log payload is missing, not JSON, or a well-formed batch, every
\* record of the batch has been emitted to the logging facility, ahead of the
\* buffer releases, by the time the call raises its error; the error does not
\* pre-empt log delivery.
C16_LogsBridgedBeforeErrorRaised ==
  (Completed /\ last.op \in LogBridgingOps /\ last.out.rc # NMSTATE_PASS
   /\ (last.out.log.t = "none" \/ last.out.log.json.j = "invalid"
       \/ WellFormedBatch(last.out.log)))
    => /\ last.res.outcome.k = "raise"
       /\ Len(LogEvents(last.res.events)) = Len(Deliverable(last.out.log))
       /\ \A i \in LogPositions(last.res.events), j \in FreePositions(last.res.events) :
            i < j
       /\ FreePositions(last.res.events) # {}

\* a failing net_state_from_policy whose two log records were emitted before
\* the mapped error was raised
C16_Witness ==
  /\ Completed
  /\ last.op = "net_state_from_policy"
  /\ last.out.rc # NMSTATE_PASS
  /\ WellFormedBatch(last.out.log)
  /\ Len(LogEvents(last.res.events)) = 2
  /\ last.res.outcome = Raise("NmstateValueError", Str("reason"))

\* the logging call the facility receives for each level
ExpectedCall(level) ==
  CASE level = "ERROR" -> "error"
    [] level = "WARN" -> "warning"
    [] level = "INFO" -> "info"
    [] OTHER -> "debug"

\* C17: for a well-formed log batch of n records the bridge emits exactly n
\* records, in the batch's order, the i-th through the logging call of the
\* i-th record's level (ERROR -> error, WARN -> warning, INFO -> info,
\* anything else -> debug) and carrying the i-th record's timestamp, origin
\* and message.
C17_WellFormedBatchBridgedInOrder ==
  (Completed /\ last.op \in LogBridgingOps /\ WellFormedBatch(last.out.log))
    => LET items == last.out.log.json.items
           emitted == LogEvents(last.res.events)
       IN /\ Len(emitted) = Len(items)
          /\ \A i \in DOMAIN items :
               /\ emitted[i].a = ExpectedCall(items[i].d.level)
               /\ emitted[i].b =
                    items[i].d.time \o ":" \o items[i].d.file \o ": " \o items[i].d.msg

\* a batch of a TRACE record followed by an ERROR record, bridged in that order
C17_Witness ==
  /\ Completed
  /\ last.op = "apply"
  /\ WellFormedBatch(last.out.log)
  /\ LogEvents(last.res.events) =
       <<LogEvent("debug", "t4:f4: m4"), LogEvent("error", "t1:f1: m1")>>


\* the call record of the apply in last', had it been given rollback_timeout t
WithTimeout(t) ==
  Call("apply",
       ApplyArgs(last'.args.kernel_only, last'.args.verify_change,
                 last'.args.save_to_disk, last'.args.commit, t),
       last'.out, last'.pre, last'.previa, last'.created)

\* the steps of an apply with commit=true are the steps of the same apply
\* with any other rollback_timeout: same transaction table and timers when
\* the engine acts, same outcome when the call returns
C18_TimeoutIrrelevantStep ==
  /\ (EngineStep("apply") /\ inflight'.args.commit)
       => \A t \in 0..MaxTimeout :
            /\ ApplyArgs(inflight'.args.kernel_only, inflight'.args.verify_change,
                         inflight'.args.save_to_disk, TRUE, t).flags
                 = inflight'.args.flags
            /\ IF inflight'.ok
                 THEN EngineApplyOk(inflight'.args.flags, apply_timeout_arg(t))
                 ELSE txn' = txn /\ timer' = timer /\ via' = via
            /\ timer' = timer
  /\ (ReturnStep("apply") /\ inflight.args.commit)
       => \A t \in 0..MaxTimeout :
            /\ WithTimeout(t).res = last'.res
            /\ WithTimeout(t).args.flags = last'.args.flags
            /\ txn' = txn /\ timer' = timer /\ via' = via

\* the watchdog acts on pending transactions only, and a transaction that
\* apply committed stays committed
C18_WatchdogSparesCommitted ==
  \A h \in Handles :
    /\ (txn[h] = "COMMITTED" /\ via[h] = "apply") => txn'[h] = "COMMITTED"
    /\ (via'[h] = "watchdog" /\ via[h] # "watchdog") => txn[h] = "PENDING"
    /\ (txn[h] # "PENDING" /\ timer'[h] # timer[h]) => (txn'[h] = "PENDING" /\ txn[h] = "NONE")

\* C18: rollback_timeout only matters for uncommitted transactions: an apply
\* with commit=true has the same outcome and leaves the same transaction
\* table and timers whatever rollback_timeout it was given, so every later
\* state is the same, and the watchdog never rolls back a transaction that
\* was applied with commit=true.
C18_TimeoutOnlyForUncommitted ==
  [](\A h \in Handles : (txn[h] = "COMMITTED" /\ via[h] = "apply") => timer[h] = 0)
  /\ [][C18_TimeoutIrrelevantStep /\ C18_WatchdogSparesCommitted]_vars

\* a committed apply that was given a nonzero rollback_timeout, while the
\* watchdog has rolled back another, uncommitted transaction
C18_Witness ==
  /\ last.op = "apply"
  /\ last.args.commit
  /\ last.args.rollback_timeout > 0
  /\ last.out.rc = NMSTATE_PASS
  /\ txn[last.created] = "COMMITTED"
  /\ timer[last.created] = 0
  /\ \E h \in Handles : txn[h] = "ROLLED_BACK" /\ via[h] = "watchdog"


\* the paths among a sequence
Range(seq) == {seq[i] : i \in DOMAIN seq}

\* C19: on every exit from the gen_conf_apply context (body finished, body
\* raised, or config generation, file saving or reload raised) the cleanup
\* has run: exactly one apply was issued, of the absent state for every
\* interface named in the desired state and with verify_change=False, and
\* after it a removal was made for every configuration file saved during
\* entry (failures of individual removals being ignored).
C19_CleanupOnEveryExit ==
  ctx.pc = "exit"
    => /\ Len(ctx.applied) = 1
       /\ ~ctx.applied[1].verify_change
       /\ Len(ctx.applied[1].state["interfaces"]) = Len(ctx.desire)
       /\ \A i \in DOMAIN ctx.desire :
            ctx.applied[1].state["interfaces"][i] =
              [name |-> ctx.desire[i], state |-> "absent"]
       /\ Range(ctx.file_paths) \subseteq Range(ctx.unlinked)

====
